---- MODULE Spec2Model ----
(***************************************************************************)
(* Model of WizardContextProvider (src/src/index.tsx): a reducer over the  *)
(* step registry and currentLocation, the two effects that follow a        *)
(* committed render, and the Context Bridge handed to the active step.     *)
(*                                                                         *)
(* One discrete event of the host application may call one bridge function *)
(* (onNext / onBack / onCancel), change the declared step list and change  *)
(* the navigation location; React then renders once: the queued request is *)
(* reduced by the reducer of THAT render (which closes over the latest     *)
(* wizardSteps and location), the result is committed and the effects run. *)
(* A request dispatched by the reset effect is rendered before any further *)
(* user event is handled.                                                  *)
(***************************************************************************)
EXTENDS Integers, Sequences, FiniteSets, TLC

VARIABLES
    wizardSteps,      \* props.steps: the declared step-key list
    stepsChanged,     \* the [wizardSteps] dependency differs from the last commit
    pathname,         \* useNavigation().location.pathname
    steps,            \* reducer state: the registry
    currentLocation,  \* reducer state: the machine's location
    queue,            \* requests dispatched and not yet reduced
    emitted,          \* host callbacks invoked by the most recent operation
    processed,        \* requests reduced by the most recent render
    lastEvent,        \* the most recent operation
    lastPayload,      \* per step key: payload of the latest Advance/Retreat
                      \* processed while that key was the active step
    cycleTerminals    \* who has invoked a terminal callback since the last
                      \* reset was reduced: "bridge" (value.onCancel) and/or
                      \* "effect" (the effect on [currentLocation])

vars == <<wizardSteps, stepsChanged, pathname, steps, currentLocation,
          queue, emitted, processed, lastEvent, lastPayload, cycleTerminals>>

-----------------------------------------------------------------------------
(* Bounds *)

MaxSteps == 2

-----------------------------------------------------------------------------
(* Constants of the program *)

WIZARD_COMPLETE == "@Wizard/complete"
WIZARD_CANCEL == "@Wizard/cancel"

nextStep == "@Wizard/steps/next"
previousStep == "@Wizard/steps/previous"
reset == "@Wizard/steps/reset"
unhandled == "@Wizard/unhandled"

nextIntlKey == "Next"
completeIntlKey == "Finish"

matchUrl == "/wizard"

Null == "null"
Undefined == "undefined"

-----------------------------------------------------------------------------
(* Input sets *)

\* the host's step lists: ordered, duplicate-free, of at most MaxSteps keys
StepLists ==
    {l \in {<<>>, <<"a">>, <<"a", "b">>, <<"b", "a">>, <<"a", "b", "c">>} :
        Len(l) <= MaxSteps}

Keys == UNION {{l[i] : i \in 1..Len(l)} : l \in StepLists}

Payloads == {"s1", "s2"}

\* the route of every step key, and the wizard's own route (no step)
Pathnames ==
    {matchUrl \o "/" \o k : k \in Keys} \cup {matchUrl}

-----------------------------------------------------------------------------
(* Requests *)

wizardAction_nextStep(p) ==
    [type |-> nextStep, error |-> FALSE, payload |-> p, list |-> <<>>]

wizardAction_previous(p) ==
    [type |-> previousStep, error |-> FALSE, payload |-> p, list |-> <<>>]

wizardAction_reset(l) ==
    [type |-> reset, error |-> FALSE, payload |-> Null, list |-> l]

\* a request whose payload is an Error instance
ErrorAction(t) ==
    [type |-> t, error |-> TRUE, payload |-> Null, list |-> <<>>]

-----------------------------------------------------------------------------
(* Closures of the component body *)

\* location.pathname.replace(`${matchUrl}/`, "")
getCurrentStepName(path) ==
    CASE path = matchUrl \o "/a" -> "a"
      [] path = matchUrl \o "/b" -> "b"
      [] path = matchUrl \o "/c" -> "c"
      [] OTHER -> path

\* Array.prototype.findIndex, 0-based, -1 when nothing matches
findIndex(list, name) ==
    IF \E i \in 1..Len(list) : list[i] = name
    THEN (CHOOSE i \in 1..Len(list) :
            /\ list[i] = name
            /\ \A j \in 1..(i-1) : list[j] # name) - 1
    ELSE -1

\* getCurrentStepIndex clamped to the first step when findIndex finds
\* nothing (Math.max(0, findIndex(...)))
getCurrentStepIndex_Clamped(ws, path) ==
    IF findIndex(ws, getCurrentStepName(path)) = -1 THEN 0
    ELSE findIndex(ws, getCurrentStepName(path))

getCurrentStepIndex(ws, path) == findIndex(ws, getCurrentStepName(path))

\* getNextPage that stays on the last step instead of returning the
\* COMPLETE sentinel
getNextPage_StaysOnLast(ws, path) ==
    LET nextStepIndex == getCurrentStepIndex(ws, path) + 1
    IN  IF nextStepIndex >= Len(ws)
        THEN IF ws = <<>> THEN WIZARD_COMPLETE ELSE ws[Len(ws)]
        ELSE ws[nextStepIndex + 1]

getNextPage(ws, path) ==
    LET nextStepIndex == getCurrentStepIndex(ws, path) + 1
    IN  IF nextStepIndex >= Len(ws) THEN WIZARD_COMPLETE
        ELSE ws[nextStepIndex + 1]

\* getPreviousPage returning the wrong sentinel below index 0
getPreviousPage_WrongSentinel(ws, path) ==
    LET previousStepIndex == getCurrentStepIndex(ws, path) - 1
    IN  IF previousStepIndex < 0 THEN WIZARD_COMPLETE
        ELSE ws[previousStepIndex + 1]

getPreviousPage(ws, path) ==
    LET previousStepIndex == getCurrentStepIndex(ws, path) - 1
    IN  IF previousStepIndex < 0 THEN WIZARD_CANCEL
        ELSE ws[previousStepIndex + 1]

-----------------------------------------------------------------------------
(* The reducer *)

\* state.steps.map(...) building the overwritten step afresh instead of
\* spreading the old one ({ key: step.key, state, nextButtonIntlKey: nextIntlKey })
OverwriteActive_Rebuild(stepList, currentStepIndex, payload) ==
    [i \in 1..Len(stepList) |->
        IF i - 1 # currentStepIndex THEN stepList[i]
        ELSE [key |-> stepList[i].key, state |-> payload,
              nextButtonIntlKey |-> nextIntlKey]]

\* state.steps.map(...): overwrite the state of the step at the active index
OverwriteActive(stepList, currentStepIndex, payload) ==
    [i \in 1..Len(stepList) |->
        IF i - 1 # currentStepIndex THEN stepList[i]
        ELSE [stepList[i] EXCEPT !.state = payload]]

\* ResetSteps with the label test off by one (index + 1 === stepCount + 1)
ResetSteps_NoCompleteLabel(list) ==
    [index \in 1..Len(list) |->
        [key |-> list[index], state |-> Null, nextButtonIntlKey |-> nextIntlKey]]

\* action.payload.map(...) of the reset case
ResetSteps(list) ==
    LET stepCount == Len(list)
    IN  [index \in 1..stepCount |->
            [key |-> list[index],
             state |-> Null,
             nextButtonIntlKey |->
                 IF index = stepCount THEN completeIntlKey ELSE nextIntlKey]]

\* reducer without the instanceof Error guard
reducer_NoErrorGuard(state, action, ws, path) ==
    CASE action.type = previousStep ->
            [steps |-> OverwriteActive(state.steps,
                            getCurrentStepIndex(ws, path), action.payload),
             currentLocation |-> getPreviousPage(ws, path)]
      [] action.type = nextStep ->
            [steps |-> OverwriteActive(state.steps,
                            getCurrentStepIndex(ws, path), action.payload),
             currentLocation |-> getNextPage(ws, path)]
      [] action.type = reset ->
            IF Len(action.list) = 0
            THEN [steps |-> <<>>, currentLocation |-> ""]
            ELSE [steps |-> ResetSteps(action.list),
                  currentLocation |-> ResetSteps(action.list)[1].key]
      [] OTHER -> state

reducer(state, action, ws, path) ==
    IF action.error THEN state
    ELSE CASE action.type = previousStep ->
                [steps |-> OverwriteActive(state.steps,
                                getCurrentStepIndex(ws, path), action.payload),
                 currentLocation |-> getPreviousPage(ws, path)]
           [] action.type = nextStep ->
                [steps |-> OverwriteActive(state.steps,
                                getCurrentStepIndex(ws, path), action.payload),
                 currentLocation |-> getNextPage(ws, path)]
           [] action.type = reset ->
                IF Len(action.list) = 0
                THEN [steps |-> <<>>, currentLocation |-> ""]
                ELSE [steps |-> ResetSteps(action.list),
                      currentLocation |-> ResetSteps(action.list)[1].key]
           [] OTHER -> state

\* useReducer applies the queued requests in order with this render's reducer
RECURSIVE ReduceAll(_, _, _, _)
ReduceAll(state, q, ws, path) ==
    IF q = <<>> THEN state
    ELSE ReduceAll(reducer(state, Head(q), ws, path), Tail(q), ws, path)

-----------------------------------------------------------------------------
(* The effect on [currentLocation] *)

\* the lookup without the optional chaining fallback: a missing step reads as
\* the first step's state
ActiveStepState_FirstStep(stepList, ws, path) ==
    LET idx == getCurrentStepIndex(ws, path)
    IN  IF idx >= 0 /\ idx < Len(stepList) THEN stepList[idx + 1].state
        ELSE IF stepList # <<>> THEN stepList[1].state ELSE Undefined

\* steps[getCurrentStepIndex()]?.state
ActiveStepState(stepList, ws, path) ==
    LET idx == getCurrentStepIndex(ws, path)
    IN  IF idx >= 0 /\ idx < Len(stepList) THEN stepList[idx + 1].state
        ELSE Undefined

\* completeState[step.key] = step.state for every step, in order
CompleteState(stepList) ==
    [k \in {stepList[i].key : i \in 1..Len(stepList)} |->
        stepList[CHOOSE i \in 1..Len(stepList) :
                    /\ stepList[i].key = k
                    /\ \A j \in (i+1)..Len(stepList) : stepList[j].key # k].state]

LocationEffect(loc, stepList, ws, path) ==
    IF loc = "" THEN <<>>
    ELSE CASE loc = WIZARD_COMPLETE ->
                <<[cb |-> "onWizardComplete", location |-> loc,
                   state |-> Undefined, complete |-> CompleteState(stepList)]>>
           [] loc = WIZARD_CANCEL ->
                <<[cb |-> "onWizardCancel", location |-> loc,
                   state |-> Undefined, complete |-> <<>>]>>
           [] OTHER ->
                <<[cb |-> "onWizardStepChanged", location |-> loc,
                   state |-> ActiveStepState(stepList, ws, path),
                   complete |-> <<>>]>>

-----------------------------------------------------------------------------
(* Render output *)

\* the provider rendered without the placeholder return
BridgeExposed_NoPlaceholder == steps # <<>>

\* the placeholder test applied to the navigation location instead of
\* currentLocation
BridgeExposed_ByPathname ==
    \E i \in 1..Len(steps) : steps[i].key = getCurrentStepName(pathname)

\* steps.filter((step) => step.key === currentLocation)[0] is defined
BridgeExposed ==
    \E i \in 1..Len(steps) : steps[i].key = currentLocation

\* a request dispatched by the reset effect awaits its render
ResetInFlight ==
    \E i \in 1..Len(queue) : queue[i].type = reset /\ ~queue[i].error

\* steps.filter((step) => step.key === currentLocation)[0]
currentStep ==
    steps[CHOOSE i \in 1..Len(steps) :
            /\ steps[i].key = currentLocation
            /\ \A j \in 1..(i-1) : steps[j].key # currentLocation]

\* value.nextButtonIntlKey
nextButtonIntlKey == currentStep.nextButtonIntlKey

TypeError == "TypeError"

\* get previousState(): steps[stepIndex].state throws when the registry has
\* no step at the index found in the declared list
previousState ==
    LET stepIndex == getCurrentStepIndex(wizardSteps, pathname)
    IN  IF stepIndex = -1 THEN Null
        ELSE IF stepIndex < Len(steps) THEN steps[stepIndex + 1].state
        ELSE TypeError

\* the value handed to WizardContext.Provider (meta left out)
BridgeValue ==
    [kind |-> "bridge",
     nextButtonIntlKey |-> nextButtonIntlKey,
     previousState |-> previousState]

\* createContext<WizardContextProps>({} as any): what useContext returns
\* when no provider is above the caller
DefaultContext == [kind |-> "emptyObject"]

UsageError == [kind |-> "Error"]

\* useWizardContext, given what useContext(WizardContext) returned
useWizardContext(context) ==
    IF context.kind = "null" THEN UsageError ELSE context

\* the variables are those of a committed render: every prop change and
\* every step request has been rendered (only the reset effect's own request
\* may still be queued)
Rendered == ~stepsChanged /\ (queue = <<>> \/ ResetInFlight)

-----------------------------------------------------------------------------
(* Bookkeeping for the claims: the latest payload handed in at each key *)

RECURSIVE TrackPayloads(_, _, _)
TrackPayloads(lp, q, path) ==
    IF q = <<>> THEN lp
    ELSE LET a == Head(q)
             name == getCurrentStepName(path)
             lp2 == IF a.error THEN lp
                    ELSE IF a.type = reset THEN [k \in Keys |-> Null]
                    ELSE IF a.type \in {nextStep, previousStep} /\ name \in Keys
                         THEN [lp EXCEPT ![name] = a.payload]
                    ELSE lp
         IN  TrackPayloads(lp2, Tail(q), path)

-----------------------------------------------------------------------------
(* Initial state: the component has mounted with registry [] and location  *)
(* "", its first render showed the placeholder, the effect on              *)
(* [currentLocation] returned early and the effect on [wizardSteps]        *)
(* dispatched the first reset.                                             *)

Init ==
    /\ wizardSteps \in StepLists
    /\ pathname \in Pathnames
    /\ stepsChanged = FALSE
    /\ steps = <<>>
    /\ currentLocation = ""
    /\ queue = <<wizardAction_reset(wizardSteps)>>
    /\ emitted = <<>>
    /\ processed = <<>>
    /\ lastEvent = "mount"
    /\ lastPayload = [k \in Keys |-> Null]
    /\ cycleTerminals = {}

-----------------------------------------------------------------------------
(* Operations *)

\* value.onNext(payload)
OnNext(p) ==
    /\ BridgeExposed
    /\ queue = <<>>
    /\ queue' = <<wizardAction_nextStep(p)>>
    /\ emitted' = <<>>
    /\ lastEvent' = "onNext"
    /\ processed' = <<>>
    /\ UNCHANGED <<wizardSteps, stepsChanged, pathname, steps,
                   currentLocation, lastPayload, cycleTerminals>>

\* value.onBack(payload)
OnBack(p) ==
    /\ BridgeExposed
    /\ queue = <<>>
    /\ queue' = <<wizardAction_previous(p)>>
    /\ emitted' = <<>>
    /\ lastEvent' = "onBack"
    /\ processed' = <<>>
    /\ UNCHANGED <<wizardSteps, stepsChanged, pathname, steps,
                   currentLocation, lastPayload, cycleTerminals>>

\* value.onNext / value.onBack called with an Error, or a request of a type
\* the switch does not handle
DispatchRejected(a) ==
    /\ BridgeExposed
    /\ queue = <<>>
    /\ queue' = <<a>>
    /\ emitted' = <<>>
    /\ lastEvent' = "dispatchRejected"
    /\ processed' = <<>>
    /\ UNCHANGED <<wizardSteps, stepsChanged, pathname, steps,
                   currentLocation, lastPayload, cycleTerminals>>

\* onCancel wired to the Retreat request instead of onWizardCancel
OnCancel_ViaRetreat ==
    /\ BridgeExposed
    /\ ~ResetInFlight
    /\ queue = <<>>
    /\ queue' = <<wizardAction_previous(Null)>>
    /\ emitted' = <<>>
    /\ lastEvent' = "onCancel"
    /\ processed' = <<>>
    /\ UNCHANGED <<wizardSteps, stepsChanged, pathname, steps,
                   currentLocation, lastPayload, cycleTerminals>>

\* value.onCancel()
OnCancel ==
    /\ BridgeExposed
    /\ ~ResetInFlight
    /\ emitted' = <<[cb |-> "onWizardCancel", location |-> currentLocation,
                     state |-> Undefined, complete |-> <<>>]>>
    /\ lastEvent' = "onCancel"
    /\ processed' = <<>>
    /\ cycleTerminals' = cycleTerminals \cup {"bridge"}
    /\ UNCHANGED <<wizardSteps, stepsChanged, pathname, steps,
                   currentLocation, queue, lastPayload>>

\* the navigation collaborator reports a new location
Navigate(path) ==
    /\ path # pathname
    /\ pathname' = path
    /\ emitted' = <<>>
    /\ lastEvent' = "navigate"
    /\ processed' = <<>>
    /\ UNCHANGED <<wizardSteps, stepsChanged, steps, currentLocation,
                   queue, lastPayload, cycleTerminals>>

\* the host renders the provider with a new steps array
SetSteps(list) ==
    /\ ~ResetInFlight
    /\ wizardSteps' = list
    /\ stepsChanged' = TRUE
    /\ emitted' = <<>>
    /\ lastEvent' = "setSteps"
    /\ processed' = <<>>
    /\ UNCHANGED <<pathname, steps, currentLocation, queue, lastPayload,
                   cycleTerminals>>

\* the effect on [currentLocation] with its dependency array left out: it
\* runs after every render
LocationChanged_EveryRender(prev, next) == TRUE

\* the dependency array [currentLocation]: the effect runs after a render
\* only when the committed currentLocation differs from the previous one
LocationChanged(prev, next) == next # prev

TerminalCallbacks == {"onWizardComplete", "onWizardCancel"}

\* one render of the provider followed by its effects
Render ==
    /\ queue # <<>> \/ stepsChanged
    /\ LET next == ReduceAll([steps |-> steps, currentLocation |-> currentLocation],
                             queue, wizardSteps, pathname)
       IN  /\ steps' = next.steps
           /\ currentLocation' = next.currentLocation
           /\ queue' = IF stepsChanged THEN <<wizardAction_reset(wizardSteps)>>
                       ELSE <<>>
           /\ emitted' = IF LocationChanged(currentLocation, next.currentLocation)
                         THEN LocationEffect(next.currentLocation, next.steps,
                                             wizardSteps, pathname)
                         ELSE <<>>
    /\ stepsChanged' = FALSE
    /\ lastEvent' = "render"
    /\ processed' = queue
    /\ lastPayload' = TrackPayloads(lastPayload, queue, pathname)
    /\ cycleTerminals' =
          (IF ResetInFlight THEN {} ELSE cycleTerminals)
          \cup (IF \E i \in 1..Len(emitted') : emitted'[i].cb \in TerminalCallbacks
                THEN {"effect"} ELSE {})
    /\ UNCHANGED <<wizardSteps, pathname>>

RejectedRequests ==
    {ErrorAction(t) : t \in {nextStep, previousStep, reset}}
    \cup {[type |-> unhandled, error |-> FALSE, payload |-> p, list |-> <<>>]
            : p \in Payloads}

Next ==
    \/ \E p \in Payloads : OnNext(p)
    \/ \E p \in Payloads : OnBack(p)
    \/ \E a \in RejectedRequests : DispatchRejected(a)
    \/ OnCancel
    \/ \E path \in Pathnames : Navigate(path)
    \/ \E list \in StepLists : SetSteps(list)
    \/ Render

Spec == Init /\ [][Next]_vars

-----------------------------------------------------------------------------
(* The provider under a cooperative host: the steps prop never changes,    *)
(* the host answers every onWizardStepChanged(location) by navigating to   *)
(* that step's route before anything else happens, nothing else moves the  *)
(* navigation location, and the step shown keeps calling onNext; it may    *)
(* also call onCancel, which the host does not act on.                     *)

InitLive == Init /\ wizardSteps # <<>>

\* route of the step the last onWizardStepChanged named
StepRoute(k) == matchUrl \o "/" \o k

\* onWizardStepChanged was invoked and the host has not navigated yet
NavigationDue ==
    /\ emitted # <<>>
    /\ emitted[1].cb = "onWizardStepChanged"
    /\ pathname # StepRoute(emitted[1].location)

\* the host's onWizardStepChanged handler navigates to the step's route
HostNavigate == NavigationDue /\ Navigate(StepRoute(emitted[1].location))

\* the step shown at the current route calls value.onNext(payload)
ActiveStepAdvances(p) == ~NavigationDue /\ OnNext(p)

\* the step shown at the current route calls value.onCancel()
ActiveStepCancels == ~NavigationDue /\ OnCancel

NextLive ==
    \/ Render
    \/ HostNavigate
    \/ \E p \in Payloads : ActiveStepAdvances(p)
    \/ ActiveStepCancels

\* a dispatch is always followed by a render, the host always navigates,
\* and the step shown always eventually advances
SpecLive ==
    /\ InitLive
    /\ [][NextLive]_vars
    /\ WF_vars(Render)
    /\ WF_vars(HostNavigate)
    /\ WF_vars(\E p \in Payloads : ActiveStepAdvances(p))

-----------------------------------------------------------------------------
(* Vocabulary of the properties *)

Sentinels == {"", WIZARD_COMPLETE, WIZARD_CANCEL}

RegistryKeys(stepList) == {stepList[i].key : i \in 1..Len(stepList)}

\* this step is a render that reduces exactly the request a
Reduces(a) == queue = <<a>> /\ lastEvent' = "render"

CallbackNames(cbs) == {cbs[i].cb : i \in 1..Len(cbs)}

\* 1-based position in the registry of the step the navigation location
\* names, 0 when the registry has no such step
ActivePosition(stepList, path) ==
    findIndex([i \in 1..Len(stepList) |-> stepList[i].key],
              getCurrentStepName(path)) + 1

\* the registry mirrors the declared list
InSync == [i \in 1..Len(steps) |-> steps[i].key] = wizardSteps

-----------------------------------------------------------------------------
\* C1: an Advance(s) reduced while the active step is step i of a registry of
\* N steps overwrites the state of step i with s, leaves every other step's
\* state unchanged, and sets currentLocation to the key of step i+1, or to
\* the COMPLETE sentinel when step i is the last step of the registry.
C1_AdvanceContract ==
    [][\A p \in Payloads :
        LET i == ActivePosition(steps, pathname)
            N == Len(steps)
        IN  (Reduces(wizardAction_nextStep(p)) /\ i >= 1) =>
                /\ Len(steps') = N
                /\ steps'[i].state = p
                /\ \A j \in 1..N : j # i => steps'[j].state = steps[j].state
                /\ currentLocation' =
                      IF i < N THEN steps[i + 1].key ELSE WIZARD_COMPLETE]_vars

\* C1 restricted to renders in which the registry mirrors the declared list
C1_AdvanceInSync ==
    [][\A p \in Payloads :
        LET i == ActivePosition(steps, pathname)
            N == Len(steps)
        IN  (Reduces(wizardAction_nextStep(p)) /\ i >= 1 /\ InSync) =>
                /\ Len(steps') = N
                /\ steps'[i].state = p
                /\ \A j \in 1..N : j # i => steps'[j].state = steps[j].state
                /\ currentLocation' =
                      IF i < N THEN steps[i + 1].key ELSE WIZARD_COMPLETE]_vars

-----------------------------------------------------------------------------
\* C2: a Retreat(s) reduced while the active step is step i of a registry of
\* N steps overwrites the state of step i with s, leaves every other step's
\* state unchanged, and sets currentLocation to the key of step i-1, or to
\* the CANCEL sentinel when step i is the first step of the registry.
C2_RetreatContract ==
    [][\A p \in Payloads :
        LET i == ActivePosition(steps, pathname)
            N == Len(steps)
        IN  (Reduces(wizardAction_previous(p)) /\ i >= 1) =>
                /\ Len(steps') = N
                /\ steps'[i].state = p
                /\ \A j \in 1..N : j # i => steps'[j].state = steps[j].state
                /\ currentLocation' =
                      IF i > 1 THEN steps[i - 1].key ELSE WIZARD_CANCEL]_vars

\* C2 restricted to renders in which the registry mirrors the declared list
C2_RetreatInSync ==
    [][\A p \in Payloads :
        LET i == ActivePosition(steps, pathname)
            N == Len(steps)
        IN  (Reduces(wizardAction_previous(p)) /\ i >= 1 /\ InSync) =>
                /\ Len(steps') = N
                /\ steps'[i].state = p
                /\ \A j \in 1..N : j # i => steps'[j].state = steps[j].state
                /\ currentLocation' =
                      IF i > 1 THEN steps[i - 1].key ELSE WIZARD_CANCEL]_vars

-----------------------------------------------------------------------------
\* C3: Reinitialize(L) depends only on L and the two label keys: an empty L
\* gives an empty registry and an empty currentLocation; otherwise the
\* registry has L's length and key order, every state is null, the last step
\* carries completeIntlKey and the others nextIntlKey, currentLocation is L's
\* first key; reducing the same Reinitialize again changes nothing.
C3_Reinitialize ==
    [][\A L \in StepLists :
        Reduces(wizardAction_reset(L)) =>
            /\ Len(steps') = Len(L)
            /\ \A i \in 1..Len(L) :
                /\ steps'[i].key = L[i]
                /\ steps'[i].state = Null
                /\ steps'[i].nextButtonIntlKey =
                      IF i = Len(L) THEN completeIntlKey ELSE nextIntlKey
            /\ currentLocation' = IF L = <<>> THEN "" ELSE L[1]
            /\ reducer([steps |-> steps', currentLocation |-> currentLocation'],
                       wizardAction_reset(L), wizardSteps', pathname')
                 = [steps |-> steps', currentLocation |-> currentLocation']]_vars

\* a list was re-declared mid-wizard and its Reinitialize has been reduced
C3_Witness ==
    /\ lastEvent = "render"
    /\ Len(processed) = 1
    /\ processed[1].type = reset
    /\ Len(processed[1].list) >= 2
    /\ Len(steps) = Len(processed[1].list)

\* C3 also for the empty list
C3_WitnessEmpty ==
    /\ lastEvent = "render"
    /\ processed = <<wizardAction_reset(<<>>)>>

-----------------------------------------------------------------------------
\* C4: in every reachable state currentLocation is empty, the COMPLETE
\* sentinel, the CANCEL sentinel, or the key of a step of the registry.
C4_NoDanglingLocation ==
    currentLocation \in Sentinels \cup RegistryKeys(steps)

-----------------------------------------------------------------------------
\* C5: a transition that brings currentLocation to COMPLETE invokes
\* onWizardComplete exactly once, with a payload that maps every key of the
\* registry to the payload of the most recent Advance or Retreat reduced
\* while that key was the active step since the last Reinitialize (null if
\* there was none).
C5_CompletionPayload ==
    [][( /\ lastEvent' = "render"
         /\ currentLocation' = WIZARD_COMPLETE
         /\ currentLocation # WIZARD_COMPLETE ) =>
            /\ Len(emitted') = 1
            /\ emitted'[1].cb = "onWizardComplete"
            /\ DOMAIN emitted'[1].complete = RegistryKeys(steps')
            /\ \A k \in RegistryKeys(steps') :
                  emitted'[1].complete[k] = lastPayload'[k]]_vars

\* C5 restricted to renders in which the registry mirrors the declared list
C5_CompletionInSync ==
    [][( /\ lastEvent' = "render"
         /\ currentLocation' = WIZARD_COMPLETE
         /\ currentLocation # WIZARD_COMPLETE
         /\ InSync ) =>
            /\ Len(emitted') = 1
            /\ emitted'[1].cb = "onWizardComplete"
            /\ DOMAIN emitted'[1].complete = RegistryKeys(steps')
            /\ \A k \in RegistryKeys(steps') :
                  emitted'[1].complete[k] = lastPayload'[k]]_vars

-----------------------------------------------------------------------------
\* C6: for a non-empty declared step list, a Retreat reduced while the
\* active step (the one the navigation location names) is the first step of
\* the list invokes onWizardCancel exactly once and no other callback.
C6_RetreatAtFirstCancels ==
    [][\A p \in Payloads :
        ( /\ Reduces(wizardAction_previous(p))
          /\ wizardSteps # <<>>
          /\ getCurrentStepName(pathname) = wizardSteps[1] ) =>
            /\ Len(emitted') = 1
            /\ emitted'[1].cb = "onWizardCancel"
            /\ currentLocation' = WIZARD_CANCEL]_vars

C6_Witness ==
    /\ lastEvent = "render"
    /\ Len(processed) = 1
    /\ processed[1].type = previousStep
    /\ ~processed[1].error
    /\ Len(wizardSteps) >= 2
    /\ getCurrentStepName(pathname) = wizardSteps[1]
    /\ currentLocation = WIZARD_CANCEL
    /\ Len(emitted) = 1

-----------------------------------------------------------------------------
\* the state the registry holds for key k, null when it holds none
StoredState(stepList, k) ==
    IF \E i \in 1..Len(stepList) : stepList[i].key = k
    THEN stepList[CHOOSE i \in 1..Len(stepList) : stepList[i].key = k].state
    ELSE Null

\* C7 as stated: whenever currentLocation changes to a step key k,
\* onWizardStepChanged is invoked with k and with the state the registry held
\* for step k itself before the transition (null or absent when step k has
\* stored nothing).
C7_StepChangedCarriesOwnState ==
    [][( /\ lastEvent' = "render"
         /\ currentLocation' # currentLocation
         /\ currentLocation' \notin Sentinels ) =>
            /\ Len(emitted') = 1
            /\ emitted'[1].cb = "onWizardStepChanged"
            /\ emitted'[1].location = currentLocation'
            /\ IF StoredState(steps, currentLocation') = Null
               THEN emitted'[1].state \in {Null, Undefined}
               ELSE emitted'[1].state = StoredState(steps, currentLocation')]_vars

\* C7 amended: whenever currentLocation changes to a step key k,
\* onWizardStepChanged is invoked once with k and with the state the registry
\* holds, after the transition, at the active index (the index in the
\* declared list of the step the navigation location names, the step being
\* left): the payload just handed to Advance or Retreat, null right after a
\* Reinitialize, undefined when the location names no declared step or the
\* registry has no step at that index.
C7_StepChangedCarriesActiveState ==
    [][( /\ lastEvent' = "render"
         /\ currentLocation' # currentLocation
         /\ currentLocation' \notin Sentinels ) =>
            /\ Len(emitted') = 1
            /\ emitted'[1].cb = "onWizardStepChanged"
            /\ emitted'[1].location = currentLocation'
            /\ Len(queue) = 1
            /\ LET idx == getCurrentStepIndex(wizardSteps, pathname)
               IN  emitted'[1].state =
                     IF idx < 0 \/ idx >= Len(steps') THEN Undefined
                     ELSE IF queue[1].type = reset THEN Null
                     ELSE queue[1].payload]_vars

\* an Advance moved the machine to a step that holds no state, and the
\* callback carried the payload of the step that was left
C7_Witness ==
    /\ lastEvent = "render"
    /\ Len(processed) = 1
    /\ processed[1].type = nextStep
    /\ ~processed[1].error
    /\ Len(emitted) = 1
    /\ emitted[1].cb = "onWizardStepChanged"
    /\ emitted[1].location = currentLocation
    /\ emitted[1].state = processed[1].payload
    /\ StoredState(steps, currentLocation) = Null

-----------------------------------------------------------------------------
\* C8: each onNext or onBack with a state payload, issued while an active
\* step exists, is followed by exactly one host callback: onNext on the last
\* step gives onWizardComplete, onNext on another step gives
\* onWizardStepChanged with the key of the following step; onBack on the
\* first step gives onWizardCancel, onBack on another step gives
\* onWizardStepChanged with the key of the preceding step.
C8_OneCallbackPerRequest ==
    [][\A p \in Payloads :
        LET idx == getCurrentStepIndex(wizardSteps, pathname)
        IN  /\ (Reduces(wizardAction_nextStep(p)) /\ idx >= 0) =>
                /\ Len(emitted') = 1
                /\ IF idx = Len(wizardSteps) - 1
                   THEN emitted'[1].cb = "onWizardComplete"
                   ELSE /\ emitted'[1].cb = "onWizardStepChanged"
                        /\ emitted'[1].location = wizardSteps[idx + 2]
            /\ (Reduces(wizardAction_previous(p)) /\ idx >= 0) =>
                /\ Len(emitted') = 1
                /\ IF idx = 0
                   THEN emitted'[1].cb = "onWizardCancel"
                   ELSE /\ emitted'[1].cb = "onWizardStepChanged"
                        /\ emitted'[1].location = wizardSteps[idx]]_vars

-----------------------------------------------------------------------------
\* C9: a request whose payload is an Error, and a request of a type the
\* switch does not handle, leave steps and currentLocation as they were and
\* cause no onWizardStepChanged, onWizardComplete or onWizardCancel.
C9_RejectedUnchanged ==
    [][\A a \in RejectedRequests :
        Reduces(a) =>
            /\ steps' = steps
            /\ currentLocation' = currentLocation
            /\ emitted' = <<>>]_vars

\* an Error-carrying Advance was reduced against a registry holding state
C9_Witness ==
    /\ lastEvent = "render"
    /\ processed = <<ErrorAction(nextStep)>>
    /\ \E i \in 1..Len(steps) : steps[i].state # Null
    /\ currentLocation \notin Sentinels

\* a request of an unhandled type was reduced
C9_WitnessUnhandled ==
    /\ lastEvent = "render"
    /\ Len(processed) = 1
    /\ processed[1].type = unhandled

-----------------------------------------------------------------------------
\* C10: cancel() invokes onWizardCancel directly, exactly once, dispatches
\* nothing, leaves the registry and currentLocation unchanged and causes no
\* onWizardStepChanged or onWizardComplete.
C10_CancelBypassesMachine ==
    [][lastEvent' = "onCancel" =>
        /\ Len(emitted') = 1
        /\ emitted'[1].cb = "onWizardCancel"
        /\ steps' = steps
        /\ currentLocation' = currentLocation
        /\ queue' = queue]_vars

\* cancel() was called on a step that is not the first, with state stored
C10_Witness ==
    /\ lastEvent = "onCancel"
    /\ \E i \in 2..Len(steps) : steps[i].key = currentLocation
    /\ \E i \in 1..Len(steps) : steps[i].state # Null
    /\ CallbackNames(emitted) = {"onWizardCancel"}

-----------------------------------------------------------------------------
\* the registry has no step whose key is currentLocation
NoCurrentStep == ~\E i \in 1..Len(steps) : steps[i].key = currentLocation

\* C11 as stated: in every rendered state in which no step of the registry
\* has the key the navigation location names, the placeholder is rendered and
\* the Context Bridge is not exposed.
C11_PlaceholderWithoutActiveStep ==
    (Rendered /\ ActivePosition(steps, pathname) = 0) => ~BridgeExposed

\* C11 amended: in every state in which no step of the registry has a key
\* equal to currentLocation (empty before the first Reinitialize, a sentinel,
\* or a key the registry lacks) the placeholder is rendered, and no step
\* taken from such a state dispatches an Advance or a Retreat; a navigation
\* location that names no step does not by itself hide the bridge.
C11_PlaceholderWithoutCurrentStep ==
    [][NoCurrentStep =>
        /\ lastEvent' \notin {"onNext", "onBack", "onCancel"}
        /\ \A i \in 1..Len(queue') :
              queue'[i].type \notin {nextStep, previousStep}]_vars

\* the navigation location names a step of the registry, yet the machine is
\* at a sentinel and shows the placeholder
C11_Witness ==
    /\ Rendered
    /\ ActivePosition(steps, pathname) >= 1
    /\ currentLocation = WIZARD_COMPLETE
    /\ NoCurrentStep
    /\ lastEvent = "navigate"

-----------------------------------------------------------------------------
\* C12: whenever the Context Bridge is exposed and the navigation location
\* names a declared step, the bridge's nextButtonIntlKey is completeIntlKey
\* if and only if that active step is the last step of the list, and
\* nextIntlKey otherwise.
C12_LabelOfActiveStep ==
    LET idx == getCurrentStepIndex(wizardSteps, pathname)
    IN  (Rendered /\ BridgeExposed /\ idx >= 0) =>
            nextButtonIntlKey =
                IF idx = Len(wizardSteps) - 1 THEN completeIntlKey
                ELSE nextIntlKey

\* C12 restricted to renders in which the navigation location names the
\* step currentLocation names and the registry mirrors the declared list
C12_LabelWhenLocationsAgree ==
    LET idx == getCurrentStepIndex(wizardSteps, pathname)
    IN  ( /\ Rendered /\ BridgeExposed /\ idx >= 0 /\ InSync
          /\ getCurrentStepName(pathname) = currentLocation ) =>
            nextButtonIntlKey =
                IF idx = Len(wizardSteps) - 1 THEN completeIntlKey
                ELSE nextIntlKey

-----------------------------------------------------------------------------
\* C13: whenever the Context Bridge is exposed, reading previousState does
\* not fail and yields null if no step of the registry matches the
\* navigation location, otherwise the payload of the most recent Advance or
\* Retreat reduced while that step was active since the last Reinitialize
\* (null if there was none).
C13_PreviousState ==
    (Rendered /\ BridgeExposed) =>
        /\ previousState # TypeError
        /\ previousState =
              IF ActivePosition(steps, pathname) = 0 THEN Null
              ELSE lastPayload[getCurrentStepName(pathname)]

\* C13 restricted to renders in which the registry mirrors the declared list
C13_PreviousStateInSync ==
    (Rendered /\ BridgeExposed /\ InSync) =>
        /\ previousState # TypeError
        /\ previousState =
              IF ActivePosition(steps, pathname) = 0 THEN Null
              ELSE lastPayload[getCurrentStepName(pathname)]

-----------------------------------------------------------------------------
\* the list supplied to this render differs, as a sequence of keys, from the
\* list of the previous commit (the one the registry was built from)
ListChangedByValue == stepsChanged /\ ~InSync

\* C14: a render issues Reinitialize exactly when the declared step-key list
\* changed by value; a list with the same keys in the same order, even a
\* fresh array, issues none, so state and currentLocation are preserved.
C14_ResetOnValueChange ==
    [][lastEvent' = "render" =>
        ((queue' # <<>>) <=> ListChangedByValue)]_vars

\* what the code does: Reinitialize is issued exactly when the array handed
\* in is a new object, whatever its contents
C14_ResetOnIdentityChange ==
    [][lastEvent' = "render" =>
        /\ (queue' # <<>>) <=> stepsChanged
        /\ stepsChanged => queue' = <<wizardAction_reset(wizardSteps)>>]_vars

-----------------------------------------------------------------------------
\* C15: useWizardContext fails with a usage error when no provider is above
\* the caller, and returns the bridge inside an active provider.
C15_UsageErrorOutsideProvider ==
    /\ useWizardContext(DefaultContext) = UsageError
    /\ (Rendered /\ BridgeExposed) => useWizardContext(BridgeValue) = BridgeValue

-----------------------------------------------------------------------------
Terminal == currentLocation \in {WIZARD_COMPLETE, WIZARD_CANCEL}

\* C16: once currentLocation is COMPLETE or CANCEL the Context Bridge is not
\* exposed, no Advance or Retreat is dispatched, and the registry and
\* currentLocation stay as they are until a render reduces a Reinitialize.
C16_TerminalUntilReinitialize ==
    [][Terminal =>
        /\ ~BridgeExposed
        /\ lastEvent' \notin {"onNext", "onBack"}
        /\ \A i \in 1..Len(queue') :
              queue'[i].type \notin {nextStep, previousStep}
        /\ \/ steps' = steps /\ currentLocation' = currentLocation
           \/ \E L \in StepLists : Reduces(wizardAction_reset(L))]_vars

\* the host replaced the step list while the machine sat at a sentinel with
\* a non-empty registry
C16_Witness ==
    /\ Terminal
    /\ steps # <<>>
    /\ lastEvent = "setSteps"
    /\ \E i \in 1..Len(steps) : steps[i].state # Null

-----------------------------------------------------------------------------
\* C17: between two consecutive Reinitializes the host receives at most one
\* terminal callback in total, whether it comes from the machine reaching a
\* sentinel or from cancel(): never both completed and cancelled, never the
\* same one twice.
C17_OneTerminalPerCycle ==
    [][(\E i \in 1..Len(emitted') : emitted'[i].cb \in TerminalCallbacks)
          => cycleTerminals = {}]_vars

\* C17 as the code has it: between two consecutive Reinitializes the machine
\* itself delivers at most one terminal callback, on the render in which
\* currentLocation enters a sentinel, and once it has, nothing terminal
\* follows (cancel() included) until the next Reinitialize; cancel() calls
\* made before that each invoke cancelled on their own.
C17_OneMachineTerminalPerCycle ==
    [][/\ (\E i \in 1..Len(emitted') : emitted'[i].cb \in TerminalCallbacks)
            => /\ "effect" \notin cycleTerminals
               /\ ~Terminal
               /\ Len(emitted') = 1
               /\ lastEvent' = "render" => Terminal'
               /\ lastEvent' # "render" =>
                     /\ lastEvent' = "onCancel"
                     /\ emitted'[1].cb = "onWizardCancel"
       /\ "effect" \in cycleTerminals' => Terminal']_vars

\* completed is delivered in a cycle in which cancel() had already invoked
\* cancelled
C17_Witness ==
    /\ cycleTerminals = {"bridge", "effect"}
    /\ lastEvent = "render"
    /\ Len(emitted) = 1
    /\ emitted[1].cb = "onWizardComplete"

Completed ==
    \E i \in 1..Len(emitted) : emitted[i].cb = "onWizardComplete"

\* number of steps of the registry that hold a payload
StepsFilled == Cardinality({i \in 1..Len(steps) : steps[i].state # Null})

\* C18: with a fixed list of N >= 1 steps, a host that navigates to the
\* step's route after every step-changed callback, no other navigation and
\* an active step that always eventually advances, the completed callback
\* is eventually invoked, and it is invoked after exactly N Advances: every
\* Advance reduced fills exactly one more step of the registry, nothing
\* else fills or empties one after initialization, and completed is
\* delivered by the Advance that fills the N-th.
C18_CompletesAfterNAdvances ==
    /\ <>Completed
    /\ [][/\ (\E p \in Payloads : Reduces(wizardAction_nextStep(p)))
               => StepsFilled' = StepsFilled + 1
          /\ ~(\E p \in Payloads : Reduces(wizardAction_nextStep(p)))
               => (StepsFilled' = StepsFilled \/ ResetInFlight)
          /\ Completed' =>
               /\ StepsFilled' = Len(wizardSteps)
               /\ \E p \in Payloads : Reduces(wizardAction_nextStep(p))]_vars

\* completed has been delivered for a list of at least two steps
C18_Witness ==
    /\ Completed
    /\ Len(wizardSteps) >= 2
    /\ StepsFilled = Len(wizardSteps)
    /\ currentLocation = WIZARD_COMPLETE

\* keys and label keys of the registry, in order
Shape(stepList) ==
    [i \in 1..Len(stepList) |->
        [key |-> stepList[i].key,
         nextButtonIntlKey |-> stepList[i].nextButtonIntlKey]]

\* C19: a render that reduces an Advance or a Retreat leaves the registry
\* with the same length, the same keys in the same order and the same label
\* key for every step, and changes the state field of at most one step; any
\* step in which keys, order, length or labels change is a render that
\* reduces a Reinitialize.
C19_ShapePreserved ==
    [][/\ \A p \in Payloads \cup {Null} :
            (Reduces(wizardAction_nextStep(p)) \/ Reduces(wizardAction_previous(p)))
               => /\ Shape(steps') = Shape(steps)
                  /\ Cardinality({i \in 1..Len(steps) :
                                     steps'[i].state # steps[i].state}) <= 1
       /\ Shape(steps') # Shape(steps)
            => \E L \in StepLists : Reduces(wizardAction_reset(L))]_vars

\* an Advance or Retreat has just overwritten the state of the last step,
\* whose label key is still completeIntlKey, in a registry of several steps
C19_Witness ==
    /\ lastEvent = "render"
    /\ Len(processed) = 1
    /\ processed[1].type \in {nextStep, previousStep}
    /\ ~processed[1].error
    /\ Len(steps) >= 2
    /\ steps[Len(steps)].state = processed[1].payload
    /\ steps[Len(steps)].nextButtonIntlKey = completeIntlKey
    /\ steps[1].state # steps[Len(steps)].state

\* the navigation location names no key of the declared list
ActiveIndexNotFound ==
    \A i \in 1..Len(wizardSteps) : wizardSteps[i] # getCurrentStepName(pathname)

\* C20: an Advance or Retreat reduced while the navigation location names
\* no declared step key leaves every step's state unchanged; the Advance
\* sets currentLocation to the first declared key, or to COMPLETE when the
\* declared list is empty, and the Retreat sets it to CANCEL.
C20_NotFoundOverwritesNothing ==
    [][\A p \in Payloads :
        /\ (Reduces(wizardAction_nextStep(p)) /\ ActiveIndexNotFound)
              => /\ steps' = steps
                 /\ currentLocation' = IF wizardSteps = <<>> THEN WIZARD_COMPLETE
                                       ELSE wizardSteps[1]
        /\ (Reduces(wizardAction_previous(p)) /\ ActiveIndexNotFound)
              => /\ steps' = steps
                 /\ currentLocation' = WIZARD_CANCEL]_vars

\* an Advance has just been reduced with the navigation location naming no
\* declared key: no step holds a payload and currentLocation is the first
\* declared key
C20_Witness ==
    /\ lastEvent = "render"
    /\ Len(processed) = 1
    /\ processed[1].type = nextStep
    /\ ~processed[1].error
    /\ ActiveIndexNotFound
    /\ wizardSteps # <<>>
    /\ currentLocation = wizardSteps[1]
    /\ steps # <<>>
    /\ \A i \in 1..Len(steps) : steps[i].state = Null

\* the same for a Retreat: currentLocation is CANCEL and no step holds a
\* payload
C20_WitnessRetreat ==
    /\ lastEvent = "render"
    /\ Len(processed) = 1
    /\ processed[1].type = previousStep
    /\ ~processed[1].error
    /\ ActiveIndexNotFound
    /\ currentLocation = WIZARD_CANCEL
    /\ steps # <<>>
    /\ \A i \in 1..Len(steps) : steps[i].state = Null

TypeOK ==
    /\ wizardSteps \in StepLists
    /\ pathname \in Pathnames
    /\ stepsChanged \in BOOLEAN
    /\ Len(queue) <= 1
    /\ Len(emitted) <= 1
    /\ cycleTerminals \subseteq {"bridge", "effect"}

====
